---- MODULE Spec2Model ----
(***************************************************************************)
(* The Task DAG of the Intent UI Mapping agent: the task map held in       *)
(* IntentUIState.task_dag, the agent tools that read and mutate it         *)
(* (agent/src/agent.py) and the two graph algorithms of TaskDAG            *)
(* (agent/src/models/task_dag.py): validate_acyclic and can_execute.       *)
(***************************************************************************)
EXTENDS Naturals, Sequences, FiniteSets, TLC

(***************************************************************************)
(* Bounds of the model.                                                    *)
(***************************************************************************)
\* Number of tool calls in one run of the agent.
MaxOps == 3

\* Longest dependency list a caller passes to create_task / update_task.
MaxDeps == 1

\* Longest dependency list of the runs that end in a delete_task.
MaxDepsDelete == 2

(***************************************************************************)
(* Values.                                                                 *)
(***************************************************************************)
\* Task ids the callers use, as record keys and as edge endpoints.
TaskIds == {"A", "B"}

TaskStatus == {"pending", "in_progress", "completed", "blocked", "skipped"}

DependencyType == {"required", "optional", "soft"}

\* Dependency(from_task, to, type), the endpoints taken from ids.
DependencyOver(ids) == [from : ids, to : ids, type : DependencyType]

\* The lists of at most n edges.
ListsUpTo(edges, n) == UNION { [1..k -> edges] : k \in 0..n }

\* An Optional[...] argument: None is the empty sequence, a supplied value v
\* is <<v>>.
None == << >>

Some(v) == << v >>

\* TaskNode(id, title, description, status, steps, sources, dependencies)
TaskNode(id, title, description, status, steps, sources, dependencies) ==
    [id |-> id, title |-> title, description |-> description,
     status |-> status, steps |-> steps, sources |-> sources,
     dependencies |-> dependencies]

\* The elements of a sequence.
Range(s) == { s[i] : i \in DOMAIN s }

(***************************************************************************)
(* TaskDAG.validate_acyclic                                                *)
(***************************************************************************)
\* Every dependency found on any record of the map.
AllDependencies(tasks) ==
    UNION { Range(tasks[k].dependencies) : k \in DOMAIN tasks }

\* BuildGraph without the setdefault: an edge whose from_task has no record
\* is dropped.
BuildGraph_task_keys_only(tasks) ==
    LET deps == AllDependencies(tasks)
    IN  [ n \in DOMAIN tasks |-> { d.to : d \in { e \in deps : e.from = n } } ]

\* graph: one key per task id, plus one per from_task (setdefault); the value
\* is the set of `to` of the edges leaving the key.
BuildGraph(tasks) ==
    LET deps == AllDependencies(tasks)
        keys == DOMAIN tasks \cup { d.from : d \in deps }
    IN  [ n \in keys |-> { d.to : d \in { e \in deps : e.from = n } } ]

\* graph.get(node_id, set())
Neighbors(graph, node_id) ==
    IF node_id \in DOMAIN graph THEN graph[node_id] ELSE {}

RECURSIVE visit(_, _, _)
RECURSIVE visitEach(_, _, _)

\* visit without visiting.remove(node_id): a node stays in progress once
\* it was entered.
visit_keeps_visiting(graph, node_id, st) ==
    IF st.raised THEN st
    ELSE IF node_id \in st.visiting THEN [st EXCEPT !.raised = TRUE]
    ELSE IF node_id \in st.visited THEN st
    ELSE LET entered == [st EXCEPT !.visiting = @ \cup {node_id}]
             after == visitEach(graph, Neighbors(graph, node_id), entered)
         IN  IF after.raised THEN after
             ELSE [after EXCEPT !.visited = @ \cup {node_id}]

\* visit(node_id), on the marking st = [visited, visiting, raised]; raised
\* stands for the ValueError that unwinds the whole traversal.
visit(graph, node_id, st) ==
    IF st.raised THEN st
    ELSE IF node_id \in st.visiting THEN [st EXCEPT !.raised = TRUE]
    ELSE IF node_id \in st.visited THEN st
    ELSE LET entered == [st EXCEPT !.visiting = @ \cup {node_id}]
             after == visitEach(graph, Neighbors(graph, node_id), entered)
         IN  IF after.raised THEN after
             ELSE [after EXCEPT !.visiting = @ \ {node_id},
                                !.visited = @ \cup {node_id}]

\* for n in nodes: visit(n), in the set's iteration order.
visitEach(graph, nodes, st) ==
    IF nodes = {} \/ st.raised THEN st
    ELSE LET n == CHOOSE x \in nodes : TRUE
         IN  visitEach(graph, nodes \ {n}, visit(graph, n, st))

\* TRUE when validate_acyclic() raises "Cyclic dependency detected".
validate_acyclic(tasks) ==
    LET graph == BuildGraph(tasks)
    IN  visitEach(graph, DOMAIN graph,
                  [visited |-> {}, visiting |-> {}, raised |-> FALSE]).raised

(***************************************************************************)
(* TaskDAG.can_execute                                                     *)
(***************************************************************************)
RECURSIVE can_execute_from(_, _, _)

\* The loop with optional edges skipped like soft ones.
can_execute_from_required_only(tasks, deps, i) ==
    IF i > Len(deps) THEN TRUE
    ELSE IF deps[i].type # "required" THEN can_execute_from(tasks, deps, i + 1)
    ELSE IF deps[i].from \notin DOMAIN tasks THEN FALSE
    ELSE IF tasks[deps[i].from].status # "completed" THEN FALSE
    ELSE can_execute_from(tasks, deps, i + 1)

\* The loop with a missing upstream passed over (`if upstream and ...`).
can_execute_from_missing_ok(tasks, deps, i) ==
    IF i > Len(deps) THEN TRUE
    ELSE IF deps[i].type = "soft" THEN can_execute_from(tasks, deps, i + 1)
    ELSE IF deps[i].from \notin DOMAIN tasks THEN can_execute_from(tasks, deps, i + 1)
    ELSE IF tasks[deps[i].from].status # "completed" THEN FALSE
    ELSE can_execute_from(tasks, deps, i + 1)

\* The loop over task.dependencies from position i on.
can_execute_from(tasks, deps, i) ==
    IF i > Len(deps) THEN TRUE
    ELSE IF deps[i].type = "soft" THEN can_execute_from(tasks, deps, i + 1)
    ELSE IF deps[i].from \notin DOMAIN tasks THEN FALSE
    ELSE IF tasks[deps[i].from].status # "completed" THEN FALSE
    ELSE can_execute_from(tasks, deps, i + 1)

can_execute(tasks, task_id) ==
    IF task_id \notin DOMAIN tasks THEN FALSE
    ELSE can_execute_from(tasks, tasks[task_id].dependencies, 1)

(***************************************************************************)
(* State.                                                                  *)
(***************************************************************************)
VARIABLES
    task_dag,   \* ctx.deps.state.task_dag: task id -> TaskNode
    before,     \* task_dag as it was when the last tool call started
    last,       \* the last tool call: its tool, arguments and outcome
    nops        \* tool calls made so far

vars == << task_dag, before, last, nops >>

\* The empty dict.
EmptyDag == [ k \in {} |-> {} ]

\* The outcome of a call: "ok" (the tool returned), or the ValueError raised.
Errors == {"AlreadyExists", "NotFound", "CycleDetected", "DependenciesUnsatisfied"}

\* A record of a call. status is "" and cascade FALSE for a tool without that
\* argument. value is what a read returned, or the TaskNode that create_task
\* built (line 110) or update_task assigned to (lines 157-166); None when the
\* call has no such value or raised before it.
Call(op, task_id, status, cascade, result, value) ==
    [op |-> op, task_id |-> task_id, status |-> status, cascade |-> cascade,
     result |-> result, value |-> value]

\* dict.pop(task_id)
Pop(tasks, task_id) == [ k \in DOMAIN tasks \ {task_id} |-> tasks[k] ]

\* tasks[task_id] = task
Put(tasks, task_id, task) ==
    [ k \in DOMAIN tasks \cup {task_id} |->
        IF k = task_id THEN task ELSE tasks[k] ]

\* `x if x is not None else default` written where the code has `x or default`:
\* an empty string or list counts as supplied.
OrElse_none_only(arg, empty, default) ==
    IF arg = None THEN default ELSE arg[1]

\* `x or default` for an Optional[str] / Optional[list] argument: None and
\* the empty value are both falsy.
OrElse(arg, empty, default) ==
    IF arg = None THEN default
    ELSE IF arg[1] = empty THEN default
    ELSE arg[1]

\* `x if x is not None else default`
IfSupplied(arg, default) == IF arg = None THEN default ELSE arg[1]

(***************************************************************************)
(* The tools.  Each operator is the map the handler leaves behind and the  *)
(* outcome it ends with; the actions below apply them.                     *)
(***************************************************************************)
\* create_task without the check of lines 108-109: the new record replaces
\* the one the map holds.
create_task_dag_overwrites(tasks, task_id, title, description, status, dependencies, sources, steps) ==
    Put(tasks, task_id,
        TaskNode(task_id, title, description, status,
                 OrElse(steps, << >>, << >>),
                 OrElse(sources, << >>, << >>),
                 OrElse(dependencies, << >>, << >>)))

\* create_task building its TaskNode without passing status on: the record
\* gets the default of the field.
create_task_dag_default_status(tasks, task_id, title, description, status, dependencies, sources, steps) ==
    IF task_id \in DOMAIN tasks THEN tasks
    ELSE Put(tasks, task_id,
             TaskNode(task_id, title, description, "pending",
                      OrElse(steps, << >>, << >>),
                      OrElse(sources, << >>, << >>),
                      OrElse(dependencies, << >>, << >>)))

\* create_task: the map after the call.
create_task_dag(tasks, task_id, title, description, status, dependencies, sources, steps) ==
    IF task_id \in DOMAIN tasks THEN tasks
    ELSE Put(tasks, task_id,
             TaskNode(task_id, title, description, status,
                      OrElse(steps, << >>, << >>),
                      OrElse(sources, << >>, << >>),
                      OrElse(dependencies, << >>, << >>)))

\* create_task: how the call ends.
create_task_result(tasks, task_id, title, description, status, dependencies, sources, steps) ==
    IF task_id \in DOMAIN tasks THEN "AlreadyExists"
    ELSE IF validate_acyclic(create_task_dag(tasks, task_id, title,
                description, status, dependencies, sources, steps))
         THEN "CycleDetected"
         ELSE "ok"

\* update_task_status with the gate of line 135 applied to every status.
update_task_status_result_gates_all(tasks, task_id, status) ==
    IF task_id \notin DOMAIN tasks THEN "NotFound"
    ELSE IF ~ can_execute(tasks, task_id)
         THEN "DependenciesUnsatisfied"
         ELSE "ok"

\* update_task_status: how the call ends.
update_task_status_result(tasks, task_id, status) ==
    IF task_id \notin DOMAIN tasks THEN "NotFound"
    ELSE IF status \in {"in_progress", "completed"}
            /\ ~ can_execute(tasks, task_id)
         THEN "DependenciesUnsatisfied"
         ELSE "ok"

\* update_task_status storing a record rebuilt from the old one without its
\* dependencies, where the code assigns to the one field.
update_task_status_dag_rebuilds(tasks, task_id, status) ==
    IF update_task_status_result(tasks, task_id, status) # "ok" THEN tasks
    ELSE [tasks EXCEPT ![task_id] =
            TaskNode(task_id, @.title, @.description, status, @.steps, @.sources, << >>)]

\* update_task_status: the map after the call.
update_task_status_dag(tasks, task_id, status) ==
    IF update_task_status_result(tasks, task_id, status) # "ok" THEN tasks
    ELSE [tasks EXCEPT ![task_id].status = status]

\* update_task: the record after the assignments of lines 157-166, made on
\* the object the map holds.
update_task_node(task, title, description, status, dependencies, sources, steps) ==
    [task EXCEPT
        !.title = OrElse(title, "", task.title),
        !.description = OrElse(description, "", task.description),
        !.status = IfSupplied(status, task.status),
        !.dependencies = IfSupplied(dependencies, task.dependencies),
        !.sources = IfSupplied(sources, task.sources),
        !.steps = IfSupplied(steps, task.steps)]

\* update_task: the map after the call.
update_task_dag(tasks, task_id, title, description, status, dependencies, sources, steps) ==
    IF task_id \notin DOMAIN tasks THEN tasks
    ELSE [tasks EXCEPT ![task_id] =
            update_task_node(tasks[task_id], title, description, status,
                             dependencies, sources, steps)]

\* update_task: how the call ends.
update_task_result(tasks, task_id, title, description, status, dependencies, sources, steps) ==
    IF task_id \notin DOMAIN tasks THEN "NotFound"
    ELSE IF validate_acyclic(update_task_dag(tasks, task_id, title,
                description, status, dependencies, sources, steps))
         THEN "CycleDetected"
         ELSE "ok"

\* The comprehension filtering on dep.to instead of dep.from_task.
StripFrom_filters_to(dependencies, task_id) ==
    SelectSeq(dependencies, LAMBDA dep : dep.to # task_id)

\* The comprehension re-pointing the edges that start at the deleted id to
\* start at their own target, where the code drops them.
StripFrom_collapses(dependencies, task_id) ==
    [ i \in DOMAIN dependencies |->
        IF dependencies[i].from = task_id
        THEN [dependencies[i] EXCEPT !.from = dependencies[i].to]
        ELSE dependencies[i] ]

\* The list comprehension of delete_task: the dependencies of a remaining
\* record that do not start at the deleted id.
StripFrom(dependencies, task_id) ==
    SelectSeq(dependencies, LAMBDA dep : dep.from # task_id)

\* delete_task running its cascade before the check of lines 179-180.
delete_task_dag_strips_before_check(tasks, task_id, cascade) ==
    LET popped == Pop(tasks, task_id)
    IN  IF cascade
        THEN [ k \in DOMAIN popped |->
                 [popped[k] EXCEPT !.dependencies = StripFrom(@, task_id)] ]
        ELSE popped

\* delete_task cascading whatever the flag says.
delete_task_dag_always_cascades(tasks, task_id, cascade) ==
    IF task_id \notin DOMAIN tasks THEN tasks
    ELSE LET popped == Pop(tasks, task_id)
         IN  [ k \in DOMAIN popped |->
                 [popped[k] EXCEPT !.dependencies = StripFrom(@, task_id)] ]

\* delete_task: the map after the call.
delete_task_dag(tasks, task_id, cascade) ==
    IF task_id \notin DOMAIN tasks THEN tasks
    ELSE LET popped == Pop(tasks, task_id)
         IN  IF cascade
             THEN [ k \in DOMAIN popped |->
                      [popped[k] EXCEPT
                         !.dependencies = StripFrom(@, task_id)] ]
             ELSE popped

\* delete_task: how the call ends.
delete_task_result(tasks, task_id, cascade) ==
    IF task_id \notin DOMAIN tasks THEN "NotFound" ELSE "ok"

\* get_task: dict.get(task_id)
get_task(tasks, task_id) ==
    IF task_id \in DOMAIN tasks THEN Some(tasks[task_id]) ELSE None

\* get_all_tasks: the dict itself.
get_all_tasks(tasks) == Some(tasks)

(***************************************************************************)
(* The arguments the callers pass.                                         *)
(***************************************************************************)
\* Dependency lists of at most MaxDeps edges.
DepLists == ListsUpTo(DependencyOver(TaskIds), MaxDeps)

\* status of create_task ("pending" when omitted).
CreateStatusArgs == {"pending", "completed"}

\* dependencies of create_task and update_task: omitted, or a list.
DepArgs == {None} \cup { Some(l) : l \in DepLists }

\* status of update_task: omitted, or a status.
UpdateStatusArgs == {None, Some("pending"), Some("in_progress"), Some("completed")}

\* <<title, description, sources, steps>> of create_task.
CreateTextArgs == { << "t1", "d1", None, Some(<< "p1" >>) >> }

\* <<title, description, sources, steps>> of update_task: nothing supplied,
\* or a new title, an empty description, new sources and no steps.
UpdateTextArgs == { << None, None, None, None >>, << Some("t2"), Some(""), Some(<< "s2" >>), Some(<< >>) >> }

(***************************************************************************)
(* Actions: one tool call each.                                            *)
(***************************************************************************)
Init ==
    /\ task_dag = EmptyDag
    /\ before = EmptyDag
    /\ last = Call("none", "", "", FALSE, "ok", None)
    /\ nops = 0

CreateTask(task_id, title, description, status, dependencies, sources, steps) ==
    /\ nops < MaxOps
    /\ task_dag' = create_task_dag(task_dag, task_id, title, description, status, dependencies, sources, steps)
    /\ last' = Call("create_task", task_id, status, FALSE, create_task_result(task_dag, task_id, title, description, status, dependencies, sources, steps), IF task_id \in DOMAIN task_dag THEN None ELSE Some(task_dag'[task_id]))
    /\ before' = task_dag
    /\ nops' = nops + 1

UpdateTaskStatus(task_id, status) ==
    /\ nops < MaxOps
    /\ task_dag' = update_task_status_dag(task_dag, task_id, status)
    /\ last' = Call("update_task_status", task_id, status, FALSE, update_task_status_result(task_dag, task_id, status), None)
    /\ before' = task_dag
    /\ nops' = nops + 1

UpdateTask(task_id, title, description, status, dependencies, sources, steps) ==
    /\ nops < MaxOps
    /\ task_dag' = update_task_dag(task_dag, task_id, title, description, status, dependencies, sources, steps)
    /\ last' = Call("update_task", task_id, IfSupplied(status, ""), FALSE, update_task_result(task_dag, task_id, title, description, status, dependencies, sources, steps), IF task_id \in DOMAIN task_dag THEN Some(task_dag'[task_id]) ELSE None)
    /\ before' = task_dag
    /\ nops' = nops + 1

DeleteTask(task_id, cascade) ==
    /\ nops < MaxOps
    /\ task_dag' = delete_task_dag(task_dag, task_id, cascade)
    /\ last' = Call("delete_task", task_id, "", cascade, delete_task_result(task_dag, task_id, cascade), None)
    /\ before' = task_dag
    /\ nops' = nops + 1

GetTask(task_id) ==
    /\ nops < MaxOps
    /\ last' = Call("get_task", task_id, "", FALSE, "ok", get_task(task_dag, task_id))
    /\ before' = task_dag
    /\ nops' = nops + 1
    /\ UNCHANGED task_dag

GetAllTasks ==
    /\ nops < MaxOps
    /\ last' = Call("get_all_tasks", "", "", FALSE, "ok", get_all_tasks(task_dag))
    /\ before' = task_dag
    /\ nops' = nops + 1
    /\ UNCHANGED task_dag

Next ==
    \/ \E task_id \in TaskIds, status \in CreateStatusArgs, dependencies \in DepArgs, t \in CreateTextArgs :
          CreateTask(task_id, t[1], t[2], status, dependencies, t[3], t[4])
    \/ \E task_id \in TaskIds, status \in TaskStatus :
          UpdateTaskStatus(task_id, status)
    \/ \E task_id \in TaskIds, status \in UpdateStatusArgs, dependencies \in DepArgs, t \in UpdateTextArgs :
          UpdateTask(task_id, t[1], t[2], status, dependencies, t[3], t[4])
    \/ \E task_id \in TaskIds, cascade \in BOOLEAN :
          DeleteTask(task_id, cascade)
    \/ \E task_id \in TaskIds :
          GetTask(task_id)
    \/ GetAllTasks

Spec == Init /\ [][Next]_vars

(***************************************************************************)
(* Runs that build a graph with longer dependency lists and delete from    *)
(* it.                                                                     *)
(***************************************************************************)
\* dependencies of create_task in these runs: delete_task never reads the
\* type of an edge, so every edge is a required one.
DeleteDepArgs == { Some(l) : l \in ListsUpTo([from : TaskIds, to : TaskIds, type : {"required"}], MaxDepsDelete) }

NextDelete ==
    \/ \E task_id \in TaskIds, dependencies \in DeleteDepArgs :
          CreateTask(task_id, "t1", "d1", "pending", dependencies, None, None)
    \/ \E task_id \in TaskIds, cascade \in BOOLEAN :
          DeleteTask(task_id, cascade)

SpecDelete == Init /\ [][NextDelete]_vars

(***************************************************************************)
(* The two methods of TaskDAG applied to a task map.  The map is drawn     *)
(* from two families, every member of which create_task can build: maps    *)
(* over three ids whose edges vary in their endpoints only (all that       *)
(* validate_acyclic reads), and maps over two ids whose edges and records  *)
(* vary in type and status too (what can_execute reads).                   *)
(***************************************************************************)
FnIds == {"A", "B", "C"}

FnStatus == {"pending", "completed"}

\* <<status, dependencies>> of a record of the first family.
FnShapeRecords == {"pending"} \X ListsUpTo([from : FnIds, to : FnIds, type : {"required"}], MaxDeps)

\* <<status, dependencies>> of a record of the second family.
FnGateRecords == FnStatus \X DepLists

\* The task map of the statuses and dependency lists c gives to the ids of
\* its domain, each record keyed by its own id.
FnGraph(c) ==
    [ k \in DOMAIN c |-> TaskNode(k, "t1", "d1", c[k][1], << >>, << >>, c[k][2]) ]

InitFn ==
    /\ \/ \E S \in SUBSET FnIds : \E c \in [S -> FnShapeRecords] : task_dag = FnGraph(c)
       \/ \E S \in SUBSET TaskIds : \E c \in [S -> FnGateRecords] : task_dag = FnGraph(c)
    /\ before = task_dag
    /\ last = Call("none", "", "", FALSE, "ok", None)
    /\ nops = 0

\* TaskDAG(tasks=task_dag).validate_acyclic()
ValidateAcyclic ==
    /\ nops = 0
    /\ last' = Call("validate_acyclic", "", "", FALSE, IF validate_acyclic(task_dag) THEN "CycleDetected" ELSE "ok", None)
    /\ before' = task_dag
    /\ nops' = nops + 1
    /\ UNCHANGED task_dag

\* TaskDAG(tasks=task_dag).can_execute(task_id)
CanExecute(task_id) ==
    /\ nops = 0
    /\ last' = Call("can_execute", task_id, "", FALSE, "ok", Some(can_execute(task_dag, task_id)))
    /\ before' = task_dag
    /\ nops' = nops + 1
    /\ UNCHANGED task_dag

NextFn ==
    \/ ValidateAcyclic
    \/ \E task_id \in FnIds : CanExecute(task_id)

SpecFn == InitFn /\ [][NextFn]_vars

(***************************************************************************)
(* Runs of create_task and update_task whose text and list arguments vary: *)
(* omitted, empty and non-empty.                                           *)
(***************************************************************************)
\* dependencies of the two tools in these runs: omitted, the empty list, one
\* edge, and a list that is a cycle by itself.
FrameDepArgs == {None, Some(<< >>), Some(<< [from |-> "A", to |-> "B", type |-> "required"] >>), Some(<< [from |-> "B", to |-> "A", type |-> "soft"], [from |-> "A", to |-> "B", type |-> "optional"] >>)}

\* <<status, title, description, sources, steps>> of create_task: status,
\* sources and steps omitted, or all supplied.
FrameCreateArgs == { << "pending", "t1", "d1", None, None >>, << "completed", "t1", "d1", Some(<< "s1" >>), Some(<< "p1" >>) >> }

\* <<status, title, description, sources, steps>> of update_task: nothing
\* supplied; a status, a title, an empty description, sources and an empty
\* list of steps; an empty title, a description and an empty list of sources.
FrameUpdateArgs == { << None, None, None, None, None >>, << Some("blocked"), Some("t2"), Some(""), Some(<< "s2" >>), Some(<< >>) >>, << None, Some(""), Some("d2"), Some(<< >>), None >> }

NextFrame ==
    \/ \E task_id \in TaskIds, dependencies \in FrameDepArgs, t \in FrameCreateArgs :
          CreateTask(task_id, t[2], t[3], t[1], dependencies, t[4], t[5])
    \/ \E task_id \in TaskIds, dependencies \in FrameDepArgs, t \in FrameUpdateArgs :
          UpdateTask(task_id, t[2], t[3], t[1], dependencies, t[4], t[5])

SpecFrame == Init /\ [][NextFrame]_vars

\* The statuses update_task_status gates (line 135).
Active == {"in_progress", "completed"}

(***************************************************************************)
(* Runs that start from a map of two records, one of them without edges    *)
(* of its own, and delete without cascade, set statuses and create again.  *)
(* No edge of the starting map has an upstream without a record, and the   *)
(* creates of these runs add no edge: an edge whose upstream has no record *)
(* is one that a delete left behind.                                       *)
(***************************************************************************)
InitDangling ==
    /\ \E T \in TaskIds : \E c \in [TaskIds -> FnGateRecords] :
          /\ c[T][2] = << >>
          /\ task_dag = FnGraph(c)
    /\ before = task_dag
    /\ last = Call("none", "", "", FALSE, "ok", None)
    /\ nops = 0

NextDangling ==
    \/ \E task_id \in TaskIds :
          DeleteTask(task_id, FALSE)
    \/ \E task_id \in TaskIds, status \in Active :
          UpdateTaskStatus(task_id, status)
    \/ \E task_id \in TaskIds :
          CreateTask(task_id, "t1", "d1", "completed", None, None, None)

SpecDangling == InitDangling /\ [][NextDangling]_vars

(***************************************************************************)
(* Reference notions the properties are stated with.                       *)
(***************************************************************************)
\* The (from, to) pairs declared on any record of the map.
DeclaredEdges(tasks) ==
    UNION { { << tasks[k].dependencies[i].from, tasks[k].dependencies[i].to >> :
                i \in DOMAIN tasks[k].dependencies } : k \in DOMAIN tasks }

RECURSIVE Closure(_, _)

\* The transitive closure of E, R being the paths found so far.
Closure(R, E) ==
    LET joined == { << pq[1][1], pq[2][2] >> : pq \in { x \in R \X E : x[1][2] = x[2][1] } }
    IN  IF joined \subseteq R THEN R ELSE Closure(R \cup joined, E)

\* Some node reaches itself along one or more edges.
HasCycle(tasks) ==
    \E e \in Closure(DeclaredEdges(tasks), DeclaredEdges(tasks)) : e[1] = e[2]

\* The edge gates the task that lists it: it is not soft.
Gating(dep) == dep.type \in {"required", "optional"}

\* The upstream of the edge has a record whose status is completed.
Satisfied(tasks, dep) ==
    /\ dep.from \in DOMAIN tasks
    /\ tasks[dep.from].status = "completed"

\* Every gating edge on the task's own record is satisfied.
Executable(tasks, task_id) ==
    /\ task_id \in DOMAIN tasks
    /\ \A i \in DOMAIN tasks[task_id].dependencies :
          Gating(tasks[task_id].dependencies[i]) => Satisfied(tasks, tasks[task_id].dependencies[i])

Mutations == {"create_task", "update_task", "update_task_status", "delete_task"}

Reads == {"get_task", "get_all_tasks"}

(***************************************************************************)
(* Properties.                                                             *)
(***************************************************************************)
\* C1: a create_task of a new id whose record closes a cycle in the union of
\* all declared edges fails with CycleDetected and leaves the task map as it
\* was before the call.
C1_CreateCycleFailsAndRollsBack ==
    ( /\ last.op = "create_task"
      /\ last.value # None
      /\ HasCycle(Put(before, last.task_id, last.value[1])) )
    => ( last.result = "CycleDetected" /\ task_dag = before )

\* C2: an update_task of an existing id whose supplied fields close a cycle
\* fails with CycleDetected and leaves the task map, and so every field of
\* the target task, as it was before the call.
C2_UpdateCycleFailsAndRollsBack ==
    ( /\ last.op = "update_task"
      /\ last.value # None
      /\ HasCycle([before EXCEPT ![last.task_id] = last.value[1]]) )
    => ( last.result = "CycleDetected" /\ task_dag = before )

\* C3: invariant I1: in every state reached from the empty graph the union of
\* all declared dependency edges has no cycle.
C3_AlwaysAcyclic == ~ HasCycle(task_dag)

\* C4: right after a create_task or update_task that returns, the union of
\* all declared dependency edges has no cycle.
C4_AcyclicAfterSuccess ==
    ( last.op \in {"create_task", "update_task"} /\ last.result = "ok" )
    => ~ HasCycle(task_dag)

\* An update_task returned after replacing edges of a graph that keeps some.
C4_Witness ==
    /\ last.op = "update_task"
    /\ last.result = "ok"
    /\ DeclaredEdges(task_dag) # {}
    /\ DeclaredEdges(task_dag) # DeclaredEdges(before)
    /\ Cardinality(DOMAIN task_dag) = 2

\* C5: no tool call puts a task into in_progress or completed (a task created
\* with that status included) while a non-soft edge on its own record has an
\* upstream that is absent or not completed. Stated of the calls that return
\* and of the edges that start at another task, whose status the call does
\* not touch: the least the claim asks.
C5_ActiveOnlyWhenExecutable ==
    \A task_id \in DOMAIN task_dag :
        ( /\ last.op \in Mutations
          /\ last.result = "ok"
          /\ task_dag[task_id].status \in Active
          /\ ( task_id \notin DOMAIN before
               \/ before[task_id].status # task_dag[task_id].status ) )
        => \A i \in DOMAIN task_dag[task_id].dependencies :
              ( /\ Gating(task_dag[task_id].dependencies[i])
                /\ task_dag[task_id].dependencies[i].from # task_id )
              => Satisfied(before, task_dag[task_id].dependencies[i])

\* Some gating edge on the task's own record has an upstream that is absent
\* or not completed.
Blocked(tasks, task_id) ==
    \E i \in DOMAIN tasks[task_id].dependencies :
        /\ Gating(tasks[task_id].dependencies[i])
        /\ ~ Satisfied(tasks, tasks[task_id].dependencies[i])

\* C6: update_task_status of an existing task to in_progress or completed
\* fails with DependenciesUnsatisfied and changes nothing when a required or
\* optional edge on the task's own record has an upstream absent or not
\* completed; otherwise it returns and the task has the new status. Soft
\* edges never make it fail.
C6_UpdateStatusGate ==
    ( /\ last.op = "update_task_status"
      /\ last.task_id \in DOMAIN before
      /\ last.status \in Active )
    => IF Blocked(before, last.task_id)
       THEN last.result = "DependenciesUnsatisfied" /\ task_dag = before
       ELSE /\ last.result = "ok"
            /\ DOMAIN task_dag = DOMAIN before
            /\ task_dag[last.task_id].status = last.status

\* The call was refused over an optional edge whose upstream has a record
\* that is not completed.
C6_WitnessRefused ==
    /\ last.op = "update_task_status"
    /\ last.result = "DependenciesUnsatisfied"
    /\ \E i \in DOMAIN before[last.task_id].dependencies :
          /\ before[last.task_id].dependencies[i].type = "optional"
          /\ before[last.task_id].dependencies[i].from \in DOMAIN before
          /\ before[last.task_id].dependencies[i].from # last.task_id

\* C7: no read observes the work of a mutation that ended in failure: a read
\* that follows a failed mutation returns the map (get_all_tasks) or the
\* record (get_task) as it was before that mutation.
C7_ReadsNeverSeeFailedMutation ==
    [][ ( last.op \in Mutations /\ last.result # "ok" /\ last'.op \in Reads )
        => IF last'.op = "get_all_tasks"
           THEN last'.value = get_all_tasks(before)
           ELSE last'.value = get_task(before, last'.task_id) ]_vars

\* C8: can_execute(id) is false for an id without a record, and otherwise
\* true exactly when every required or optional edge on the task's own
\* record has an upstream that exists and is completed; soft edges and edges
\* on other records do not count.
C8_CanExecuteIsReference ==
    last.op = "can_execute"
    => last.value = Some(Executable(task_dag, last.task_id))

\* can_execute returned true for a task that lists a soft edge from a task
\* that is not completed, while another record lists a required edge into
\* the task whose upstream is not completed either.
C8_Witness ==
    /\ last.op = "can_execute"
    /\ last.value = Some(TRUE)
    /\ \E i \in DOMAIN task_dag[last.task_id].dependencies :
          /\ task_dag[last.task_id].dependencies[i].type = "soft"
          /\ ~ Satisfied(task_dag, task_dag[last.task_id].dependencies[i])
    /\ \E k \in DOMAIN task_dag \ {last.task_id} :
          \E i \in DOMAIN task_dag[k].dependencies :
              /\ task_dag[k].dependencies[i].to = last.task_id
              /\ task_dag[k].dependencies[i].type = "required"
              /\ ~ Satisfied(task_dag, task_dag[k].dependencies[i])

\* The positions of a list whose edge does not start at task_id.
KeptPositions(dependencies, task_id) ==
    { i \in DOMAIN dependencies : dependencies[i].from # task_id }

\* new lists exactly the edges of old at the positions kept, in old's order.
KeepsInOrder(new, old, kept) ==
    /\ Len(new) = Cardinality(kept)
    /\ \A i \in kept : new[Cardinality({ j \in kept : j <= i })] = old[i]

\* C9: delete_task(T, cascade=True) of an existing T removes T's record and,
\* from every remaining record, exactly the edges whose from is T; the other
\* edges (those into T included) stay in their order and no other field of a
\* remaining record changes.
C9_CascadeStripsOutgoingOnly ==
    ( /\ last.op = "delete_task"
      /\ last.cascade
      /\ last.task_id \in DOMAIN before )
    => /\ last.result = "ok"
       /\ DOMAIN task_dag = DOMAIN before \ {last.task_id}
       /\ \A k \in DOMAIN task_dag :
             /\ KeepsInOrder(task_dag[k].dependencies, before[k].dependencies,
                             KeptPositions(before[k].dependencies, last.task_id))
             /\ [task_dag[k] EXCEPT !.dependencies = << >>]
                  = [before[k] EXCEPT !.dependencies = << >>]

\* A cascading delete of T stripped an edge from T off a remaining record
\* and left on it an edge into T that starts elsewhere.
C9_Witness ==
    /\ last.op = "delete_task"
    /\ last.cascade
    /\ last.result = "ok"
    /\ \E k \in DOMAIN task_dag :
          /\ Len(before[k].dependencies) = 2
          /\ Len(task_dag[k].dependencies) = 1
          /\ task_dag[k].dependencies[1].to = last.task_id
          /\ task_dag[k].dependencies[1].from # last.task_id

\* C10: validate_acyclic() raises exactly when the graph of all (from, to)
\* pairs found on any record has a directed cycle, self-loops included and
\* endpoints without a record taking part; it changes no task.
C10_ValidateIsCycleCheck ==
    last.op = "validate_acyclic"
    => /\ (last.result = "CycleDetected") <=> HasCycle(task_dag)
       /\ last.result \in {"CycleDetected", "ok"}
       /\ task_dag = before

\* A cycle was found that runs through an id that has no record, no edge
\* being a self-loop.
C10_WitnessDanglingCycle ==
    /\ last.op = "validate_acyclic"
    /\ last.result = "CycleDetected"
    /\ \A e \in DeclaredEdges(task_dag) : e[1] # e[2]
    /\ \E n \in FnIds \ DOMAIN task_dag :
          << n, n >> \in Closure(DeclaredEdges(task_dag), DeclaredEdges(task_dag))

\* C11: update_task, update_task_status and delete_task called with an id
\* that has no record each fail with NotFound and leave the task map exactly
\* as it was before the call.
C11_AbsentIdNotFound ==
    ( /\ last.op \in {"update_task", "update_task_status", "delete_task"}
      /\ last.task_id \notin DOMAIN before )
    => ( last.result = "NotFound" /\ task_dag = before )

\* A cascading delete of an id without a record was refused while a record
\* of the map listed an edge from that id, which stayed.
C11_Witness ==
    /\ last.op = "delete_task"
    /\ last.cascade
    /\ last.task_id \notin DOMAIN before
    /\ last.result = "NotFound"
    /\ \E k \in DOMAIN task_dag :
          \E i \in DOMAIN task_dag[k].dependencies :
              task_dag[k].dependencies[i].from = last.task_id

\* C12: create_task called with an id that is already present fails with
\* AlreadyExists and leaves the task map unchanged: the record under that id
\* keeps all of its fields, and no outcome of the acyclicity validation
\* takes the place of this error.
C12_ExistingIdAlreadyExists ==
    ( last.op = "create_task" /\ last.task_id \in DOMAIN before )
    => ( last.result = "AlreadyExists" /\ task_dag = before )

\* create_task of a present id was refused with AlreadyExists on a map whose
\* edges hold a cycle, one the validation would have raised on, the call
\* asking for a status the record under that id does not have.
C12_Witness ==
    /\ last.op = "create_task"
    /\ last.task_id \in DOMAIN before
    /\ last.result = "AlreadyExists"
    /\ HasCycle(before)
    /\ before[last.task_id].status # last.status

Unrestricted == {"pending", "blocked", "skipped"}

\* C13: update_task_status(id, s) with s pending, blocked or skipped returns
\* for every id that has a record, whatever the status of the task and
\* whatever the state of its dependencies, and the task has status s after.
C13_UnrestrictedTransitions ==
    ( /\ last.op = "update_task_status"
      /\ last.task_id \in DOMAIN before
      /\ last.status \in Unrestricted )
    => /\ last.result = "ok"
       /\ DOMAIN task_dag = DOMAIN before
       /\ task_dag[last.task_id].status = last.status

\* A completed task with an unsatisfied gating edge was set to blocked.
C13_Witness ==
    /\ last.op = "update_task_status"
    /\ last.result = "ok"
    /\ last.status = "blocked"
    /\ before[last.task_id].status = "completed"
    /\ Blocked(before, last.task_id)
    /\ task_dag[last.task_id].status = "blocked"

\* The field of the record after an update: the value supplied, or the old
\* one when the argument was omitted.
Supplied(arg, old) == IF arg = None THEN old ELSE arg[1]

\* The same for title and description, where an empty string keeps the old
\* value too.
SuppliedText(arg, old) == IF arg \in {None, Some("")} THEN old ELSE arg[1]

\* C14: an update_task that returns changes only the supplied fields of the
\* target task and nothing else in the map: an omitted field keeps its
\* value; an empty string for title or description keeps it too;
\* dependencies, sources and steps, when supplied (the empty list included),
\* take the place of the old list; status, when supplied, takes the place of
\* the old status; every other record, and the id of the target, stay.
C14_UpdateChangesOnlySupplied ==
    [][ \A task_id \in TaskIds, dependencies \in FrameDepArgs, t \in FrameUpdateArgs :
          ( /\ last'.op = "update_task"
            /\ last'.task_id = task_id
            /\ last'.result = "ok"
            /\ UpdateTask(task_id, t[2], t[3], t[1], dependencies, t[4], t[5]) )
          => /\ DOMAIN task_dag' = DOMAIN task_dag
             /\ \A k \in DOMAIN task_dag \ {task_id} : task_dag'[k] = task_dag[k]
             /\ task_dag'[task_id] =
                  [ id |-> task_dag[task_id].id,
                    title |-> SuppliedText(t[2], task_dag[task_id].title),
                    description |-> SuppliedText(t[3], task_dag[task_id].description),
                    status |-> Supplied(t[1], task_dag[task_id].status),
                    steps |-> Supplied(t[5], task_dag[task_id].steps),
                    sources |-> Supplied(t[4], task_dag[task_id].sources),
                    dependencies |-> Supplied(dependencies, task_dag[task_id].dependencies) ]
      ]_vars

\* An update_task returned on a map of two records: the target got a new
\* title and status, kept its description (an empty one was supplied), and
\* had its steps and its dependencies replaced by empty lists.
C14_Witness ==
    /\ last.op = "update_task"
    /\ last.result = "ok"
    /\ Cardinality(DOMAIN before) = 2
    /\ before[last.task_id].title = "t1"
    /\ task_dag[last.task_id].title = "t2"
    /\ task_dag[last.task_id].description = "d1"
    /\ before[last.task_id].status = "completed"
    /\ task_dag[last.task_id].status = "blocked"
    /\ before[last.task_id].steps # << >>
    /\ task_dag[last.task_id].steps = << >>
    /\ before[last.task_id].dependencies # << >>
    /\ task_dag[last.task_id].dependencies = << >>

\* The argument of create_task as the record holds it: the empty list when
\* omitted.
OrEmpty(arg) == IF arg = None THEN << >> ELSE arg[1]

\* C15: a create_task that returns leaves the map it found plus exactly one
\* new record under key task_id, whose id is the key and whose fields are the
\* arguments (empty dependencies, sources and steps when omitted); every
\* record that was there is unchanged.
C15_CreateAddsExactlyTheRecord ==
    [][ \A task_id \in TaskIds, dependencies \in FrameDepArgs, t \in FrameCreateArgs :
          ( /\ last'.op = "create_task"
            /\ last'.task_id = task_id
            /\ last'.result = "ok"
            /\ CreateTask(task_id, t[2], t[3], t[1], dependencies, t[4], t[5]) )
          => /\ task_id \notin DOMAIN task_dag
             /\ DOMAIN task_dag' = DOMAIN task_dag \cup {task_id}
             /\ \A k \in DOMAIN task_dag : task_dag'[k] = task_dag[k]
             /\ task_dag'[task_id] =
                  [ id |-> task_id,
                    title |-> t[2],
                    description |-> t[3],
                    status |-> t[1],
                    steps |-> OrEmpty(t[5]),
                    sources |-> OrEmpty(t[4]),
                    dependencies |-> OrEmpty(dependencies) ]
      ]_vars

\* A create_task returned on a map that held a record: the new record is
\* completed, lists an edge, a source and a step, and the old record stayed.
C15_Witness ==
    /\ last.op = "create_task"
    /\ last.result = "ok"
    /\ DOMAIN before # {}
    /\ DOMAIN task_dag = DOMAIN before \cup {last.task_id}
    /\ last.task_id \notin DOMAIN before
    /\ task_dag[last.task_id].status = "completed"
    /\ task_dag[last.task_id].dependencies # << >>
    /\ task_dag[last.task_id].sources = << "s1" >>
    /\ \E k \in DOMAIN before : before[k].sources = << >> /\ task_dag[k] = before[k]

\* C16: an update_task_status that returns changes only the status field of
\* the task: its dependency list and every other record are unchanged, so
\* the set of edges of the aggregated graph is the same before and after.
C16_UpdateStatusChangesOnlyStatus ==
    ( last.op = "update_task_status" /\ last.result = "ok" )
    => /\ last.task_id \in DOMAIN before
       /\ task_dag = [before EXCEPT ![last.task_id].status = last.status]
       /\ DeclaredEdges(task_dag) = DeclaredEdges(before)

\* An update_task_status returned having changed the status of a task that
\* lists an edge, on a map of two records.
C16_Witness ==
    /\ last.op = "update_task_status"
    /\ last.result = "ok"
    /\ Cardinality(DOMAIN before) = 2
    /\ before[last.task_id].dependencies # << >>
    /\ before[last.task_id].status # task_dag[last.task_id].status

\* The task lists, on its own record, a required or optional edge whose
\* upstream has no record.
ListsGatingEdgeFromAbsent(tasks, task_id) ==
    \E i \in DOMAIN tasks[task_id].dependencies :
        /\ Gating(tasks[task_id].dependencies[i])
        /\ tasks[task_id].dependencies[i].from \notin DOMAIN tasks

\* C17: delete_task(T, cascade=False) of an existing T removes only T's
\* record and leaves every remaining record as it was, the edges from T
\* included; and in every state after it in which T has no record, a task
\* that lists a required or optional edge from T on its own record has
\* can_execute false, and an update_task_status of it to in_progress or
\* completed fails with DependenciesUnsatisfied and changes nothing.
C17_DanglingEdgeBlocks ==
    /\ ( /\ last.op = "delete_task"
         /\ ~ last.cascade
         /\ last.task_id \in DOMAIN before )
       => ( last.result = "ok" /\ task_dag = Pop(before, last.task_id) )
    /\ \A k \in DOMAIN task_dag :
          ListsGatingEdgeFromAbsent(task_dag, k) => ~ can_execute(task_dag, k)
    /\ ( /\ last.op = "update_task_status"
         /\ last.status \in Active
         /\ last.task_id \in DOMAIN before
         /\ ListsGatingEdgeFromAbsent(before, last.task_id) )
       => ( last.result = "DependenciesUnsatisfied" /\ task_dag = before )

\* An update_task_status was refused for a task whose only edge is an
\* optional one from another task, whose record a delete had removed.
C17_Witness ==
    /\ last.op = "update_task_status"
    /\ last.result = "DependenciesUnsatisfied"
    /\ Len(before[last.task_id].dependencies) = 1
    /\ before[last.task_id].dependencies[1].type = "optional"
    /\ before[last.task_id].dependencies[1].from # last.task_id
    /\ before[last.task_id].dependencies[1].from \notin DOMAIN before

\* C18: in every state reached from the empty graph by create_task,
\* update_task, update_task_status and delete_task calls (failed ones
\* included), a create_task of an id without a record that passes no edge
\* returns: no mutation rejected earlier makes it fail with CycleDetected.
C18_EdgeFreeCreateSucceeds ==
    ( /\ last.op = "create_task"
      /\ last.task_id \notin DOMAIN before
      /\ last.value # None
      /\ last.value[1].dependencies = << >> )
    => last.result = "ok"

\* C19: delete_task, with or without cascade, introduces no cycle: when the
\* union of the declared edges has none before the call it has none after
\* it; and the call never ends with CycleDetected.
C19_DeleteIntroducesNoCycle ==
    last.op = "delete_task"
    => /\ last.result \in {"ok", "NotFound"}
       /\ ~ HasCycle(before) => ~ HasCycle(task_dag)

\* A cascading delete on a map without a cycle stripped an edge.
C19_Witness ==
    /\ last.op = "delete_task"
    /\ last.cascade
    /\ last.result = "ok"
    /\ ~ HasCycle(before)
    /\ DeclaredEdges(before) # DeclaredEdges(task_dag)
    /\ ~ HasCycle(task_dag)

====
